---- MODULE Spec2Model ----
(***************************************************************************)
(* State-machine model of server/controllers/post_controller.js: the nine *)
(* request handlers of the post/comment API over the Post, Comment and    *)
(* User collections.  Every `await` of a handler is one atomic step: the  *)
(* database operation it waits for together with the synchronous code     *)
(* that follows it up to the next `await` (or the response).  Several      *)
(* requests may be in flight at once, one per request slot.               *)
(***************************************************************************)
EXTENDS Integers, Sequences, FiniteSets, TLC

MaxPosts == 1        \* posts ever created
MaxComments == 1     \* comments ever created

Procs == {1, 2}                \* request slots: two requests may be in flight
Users == {"u1", "u2"}          \* requester ids that have a User document
Ghost == "u0"                  \* an authenticated id whose User document is gone
Ids == Users \cup {Ghost}
PostIds == 1..MaxPosts
NoSuchPost == 0                \* a post id that names no post, ever
Images == {"none", "corrupt", "valid"}

VARIABLES
    posts,          \* Post collection: id -> [author, comments, likes]
    comments,       \* Comment collection: id -> [post, author]
    users,          \* User collection: id -> [posts, bookmarks, ver (__v)]
    nextPostId,     \* next fresh Post _id
    nextCommentId,  \* next fresh Comment _id
    uploads,        \* uploads issued to the object store
    pc,             \* per slot: the await the handler is suspended at
    req,            \* per slot: the request being handled
    local,          \* per slot: the handler's local documents
    resp,           \* the response the last step sent, if it sent one
    lastLike,       \* history: the last completed like/dislike per user and post
    lastMark        \* history: the last bookmark result per user and post

vars == <<posts, comments, users, nextPostId, nextCommentId, uploads,
          pc, req, local, resp, lastLike, lastMark>>
db == <<posts, comments, users, nextPostId, nextCommentId, uploads>>
history == <<lastLike, lastMark>>

----------------------------------------------------------------------------
(* Array helpers: the database's update operators and Array.prototype.     *)

InSeq(x, s) == \E i \in 1..Len(s) : s[i] = x

Count(x, s) == Cardinality({i \in 1..Len(s) : s[i] = x})

Range(s) == {s[i] : i \in 1..Len(s)}

\* A fault: the element is appended whether or not it is present.
AddAlways(s, x) == Append(s, x)

\* $addToSet
AddToSet(s, x) == IF InSeq(x, s) THEN s ELSE Append(s, x)

\* $pull, and Array.prototype.filter(id => id !== x)
Pull(s, x) == SelectSeq(s, LAMBDA y : y # x)

\* A fault: membership is never seen.
includesNever(s, x) == FALSE

\* MongooseArray.includes
includes(s, x) == InSeq(x, s)

\* A fault: every path of the local document is written back.
saveAll(doc, stored, dirty) == [f \in DOMAIN stored |-> doc[f]]

\* document.save(): only the modified paths of the local document are written.
save(doc, stored, dirty) ==
    [f \in DOMAIN stored |-> IF f \in dirty THEN doc[f] ELSE stored[f]]

\* Sequence of the elements of a set of integers, largest first
\* (sort({ createdAt: -1 }): ids are handed out in creation order).
RECURSIVE Descending(_)
Descending(S) ==
    IF S = {} THEN <<>>
    ELSE LET m == CHOOSE x \in S : \A y \in S : y <= x
         IN <<m>> \o Descending(S \ {m})

RECURSIVE Ascending(_)
Ascending(S) ==
    IF S = {} THEN <<>>
    ELSE LET m == CHOOSE x \in S : \A y \in S : x <= y
         IN <<m>> \o Ascending(S \ {m})

\* Post.findById / User.findById: the document in a one-element sequence,
\* the empty sequence for null.
FindPost(id) ==
    IF id \in DOMAIN posts
    THEN <<[id |-> id, author |-> posts[id].author,
            comments |-> posts[id].comments, likes |-> posts[id].likes]>>
    ELSE <<>>

FindUser(id) == IF id \in DOMAIN users THEN <<users[id]>> ELSE <<>>

\* Comment.find({ post: postId })
CommentsOf(postId) == {c \in DOMAIN comments : comments[c].post = postId}

\* Post.find({ author: authorId })
PostsOf(authorId) == {i \in DOMAIN posts : posts[i].author = authorId}

----------------------------------------------------------------------------
(* Requests and responses.                                                 *)

\* A request: the handler, req.id, req.params.id and, for addNewPost and
\* addComment, what req.file or req.body.text holds.
Req(op, id, postId, arg) == [op |-> op, id |-> id, postId |-> postId, arg |-> arg]
NoReq == Req("none", Ghost, NoSuchPost, "")
NoLocal == [post |-> <<>>, user |-> <<>>, comment |-> <<>>, dirty |-> {}]
NoResp == [req |-> NoReq, status |-> 0, success |-> "none", type |-> "", body |-> <<>>]

\* res.status(s).json({ success, type, ...body }); success is "absent" when
\* the JSON object has no such field.
Json(status, success, type, body) ==
    [status |-> status, success |-> success, type |-> type, body |-> body]

Ok(status) == Json(status, "true", "", <<>>)
Fail(status) == Json(status, "false", "", <<>>)

\* The handler returns: the response is sent and the slot is free again.
Respond(p, q, r) ==
    /\ resp' = [req |-> q, status |-> r.status, success |-> r.success,
                type |-> r.type, body |-> r.body]
    /\ pc' = [pc EXCEPT ![p] = "idle"]
    /\ req' = [req EXCEPT ![p] = NoReq]
    /\ local' = [local EXCEPT ![p] = NoLocal]

\* The handler suspends at its next await.
Goto(p, label, l) ==
    /\ pc' = [pc EXCEPT ![p] = label]
    /\ local' = [local EXCEPT ![p] = l]
    /\ resp' = NoResp
    /\ UNCHANGED req

\* A request arrives at a free slot and runs to its first await.
Begin(p, q, label, l) ==
    /\ pc' = [pc EXCEPT ![p] = label]
    /\ req' = [req EXCEPT ![p] = q]
    /\ local' = [local EXCEPT ![p] = l]
    /\ resp' = NoResp

Init ==
    /\ posts = << >>
    /\ comments = << >>
    /\ users = [u \in Users |-> [posts |-> <<>>, bookmarks |-> <<>>, ver |-> 0]]
    /\ nextPostId = 1
    /\ nextCommentId = 1
    /\ uploads = 0
    /\ pc = [p \in Procs |-> "idle"]
    /\ req = [p \in Procs |-> NoReq]
    /\ local = [p \in Procs |-> NoLocal]
    /\ resp = NoResp
    /\ lastLike = [u \in Ids |-> [i \in PostIds |-> "none"]]
    /\ lastMark = [u \in Ids |-> [i \in PostIds |-> "none"]]

----------------------------------------------------------------------------
(* addNewPost                                                              *)

\* A fault: the missing image is never noticed.
NoImageNever(image) == FALSE

\* !image
NoImage(image) == image = "none"

\* Request received; runs through the image check and the transcoding
\* (a computation on the request's own buffer; a buffer sharp cannot
\* decode throws, caught as a 500) up to the upload.  At most MaxPosts
\* requests are let through to the upload.
addNewPost(p, id, image) ==
    /\ pc[p] = "idle"
    /\ IF NoImage(image)
       THEN Respond(p, Req("addNewPost", id, NoSuchPost, image),
                    Json(400, "absent", "", <<>>))
       ELSE IF image = "corrupt"
       THEN Respond(p, Req("addNewPost", id, NoSuchPost, image), Fail(500))
       ELSE /\ uploads + Cardinality({q \in Procs : pc[q] = "anp_upload"}) < MaxPosts
            /\ Begin(p, Req("addNewPost", id, NoSuchPost, image), "anp_upload", NoLocal)
    /\ UNCHANGED <<db, history>>

\* cloudinary.uploader.upload
addNewPost_upload(p) ==
    /\ pc[p] = "anp_upload"
    /\ uploads' = uploads + 1
    /\ Goto(p, "anp_create", local[p])
    /\ UNCHANGED <<posts, comments, users, nextPostId, nextCommentId, history>>

\* Post.create
addNewPost_create(p) ==
    /\ pc[p] = "anp_create"
    /\ posts' = posts @@ (nextPostId :>
                  [author |-> req[p].id, comments |-> <<>>, likes |-> <<>>])
    /\ nextPostId' = nextPostId + 1
    /\ Goto(p, "anp_findUser",
            [local[p] EXCEPT !.post = <<[id |-> nextPostId, author |-> req[p].id,
                                         comments |-> <<>>, likes |-> <<>>]>>])
    /\ UNCHANGED <<comments, users, nextCommentId, uploads, history>>

\* User.findById, then user.posts.push on the local document
addNewPost_findUser(p) ==
    /\ pc[p] = "anp_findUser"
    /\ LET user == FindUser(req[p].id) IN
       IF user # <<>>
       THEN Goto(p, "anp_saveUser",
                 [local[p] EXCEPT !.user = <<[user[1] EXCEPT
                                    !.posts = Append(@, local[p].post[1].id)]>>])
       ELSE Goto(p, "anp_populate", local[p])
    /\ UNCHANGED <<db, history>>

\* user.save(): the pushed id is sent as an atomic $push
addNewPost_saveUser(p) ==
    /\ pc[p] = "anp_saveUser"
    /\ users' = [users EXCEPT ![req[p].id] =
                   [@ EXCEPT !.posts = Append(@, local[p].post[1].id),
                             !.ver = @ + 1]]
    /\ Goto(p, "anp_populate", local[p])
    /\ UNCHANGED <<posts, comments, nextPostId, nextCommentId, uploads, history>>

\* post.populate, then the 201 response
addNewPost_populate(p) ==
    /\ pc[p] = "anp_populate"
    /\ Respond(p, req[p], Json(201, "true", "", <<local[p].post[1].id>>))
    /\ UNCHANGED <<db, history>>

----------------------------------------------------------------------------
(* getAllPost, getUserPost, getCommentsOfPost: one query each; the        *)
(* response carries the ids found, in the order of the query.              *)

getAllPost(p) ==
    /\ pc[p] = "idle"
    /\ Respond(p, Req("getAllPost", Ghost, NoSuchPost, ""),
               Json(200, "true", "", Descending(DOMAIN posts)))
    /\ UNCHANGED <<db, history>>

getUserPost(p, id) ==
    /\ pc[p] = "idle"
    /\ Respond(p, Req("getUserPost", id, NoSuchPost, ""),
               Json(200, "true", "", Descending(PostsOf(id))))
    /\ UNCHANGED <<db, history>>

getCommentsOfPost(p, postId) ==
    /\ pc[p] = "idle"
    /\ Respond(p, Req("getCommentsOfPost", Ghost, postId, ""),
               Json(200, "true", "", Ascending(CommentsOf(postId))))
    /\ UNCHANGED <<db, history>>

----------------------------------------------------------------------------
(* likePost, dislikePost                                                   *)

\* document.save() when the stored document is gone: older drivers report
\* success, newer ones throw DocumentNotFoundError.
SaveStatus(stored, okStatus) == IF stored THEN {okStatus} ELSE {okStatus, 500}

Done(status) == IF status = 500 THEN Fail(500) ELSE Ok(status)

\* Post.findById and the 404 guard
likePost(p, id, postId) ==
    /\ pc[p] = "idle"
    /\ LET post == FindPost(postId) IN
       IF post = <<>>
       THEN Respond(p, Req("likePost", id, postId, ""), Fail(404))
       ELSE Begin(p, Req("likePost", id, postId, ""), "like_update",
                  [NoLocal EXCEPT !.post = post])
    /\ UNCHANGED <<db, history>>

\* post.updateOne({ $addToSet: { likes: userId } })
likePost_update(p) ==
    /\ pc[p] = "like_update"
    /\ LET postId == req[p].postId IN
       posts' = IF postId \in DOMAIN posts
                THEN [posts EXCEPT ![postId].likes = AddToSet(@, req[p].id)]
                ELSE posts
    /\ Goto(p, "like_save", local[p])
    /\ UNCHANGED <<comments, users, nextPostId, nextCommentId, uploads, history>>

\* post.save() of the unmodified local document, then the response
likePost_save(p) ==
    /\ pc[p] = "like_save"
    /\ LET postId == req[p].postId IN
       /\ posts' = IF postId \in DOMAIN posts
                   THEN [posts EXCEPT ![postId] = save(local[p].post[1], @, local[p].dirty)]
                   ELSE posts
       /\ \E status \in SaveStatus(postId \in DOMAIN posts, 200) :
             Respond(p, req[p], Done(status))
       /\ lastLike' = [lastLike EXCEPT ![req[p].id][postId] = "like"]
    /\ UNCHANGED <<comments, users, nextPostId, nextCommentId, uploads, lastMark>>

dislikePost(p, id, postId) ==
    /\ pc[p] = "idle"
    /\ LET post == FindPost(postId) IN
       IF post = <<>>
       THEN Respond(p, Req("dislikePost", id, postId, ""), Fail(404))
       ELSE Begin(p, Req("dislikePost", id, postId, ""), "dislike_update",
                  [NoLocal EXCEPT !.post = post])
    /\ UNCHANGED <<db, history>>

\* post.updateOne({ $pull: { likes: userId } })
dislikePost_update(p) ==
    /\ pc[p] = "dislike_update"
    /\ LET postId == req[p].postId IN
       posts' = IF postId \in DOMAIN posts
                THEN [posts EXCEPT ![postId].likes = Pull(@, req[p].id)]
                ELSE posts
    /\ Goto(p, "dislike_save", local[p])
    /\ UNCHANGED <<comments, users, nextPostId, nextCommentId, uploads, history>>

dislikePost_save(p) ==
    /\ pc[p] = "dislike_save"
    /\ LET postId == req[p].postId IN
       /\ posts' = IF postId \in DOMAIN posts
                   THEN [posts EXCEPT ![postId] = save(local[p].post[1], @, local[p].dirty)]
                   ELSE posts
       /\ \E status \in SaveStatus(postId \in DOMAIN posts, 200) :
             Respond(p, req[p], Done(status))
       /\ lastLike' = [lastLike EXCEPT ![req[p].id][postId] = "dislike"]
    /\ UNCHANGED <<comments, users, nextPostId, nextCommentId, uploads, lastMark>>

----------------------------------------------------------------------------
(* addComment                                                              *)

\* The text check and Post.findById; the result is not checked.
addComment(p, id, postId, text) ==
    /\ pc[p] = "idle"
    /\ IF ~text
       THEN Respond(p, Req("addComment", id, postId, ""), Fail(400))
       ELSE /\ nextCommentId + Cardinality({q \in Procs : pc[q] = "ac_create"})
                 <= MaxComments
            /\ Begin(p, Req("addComment", id, postId, "text"), "ac_create",
                     [NoLocal EXCEPT !.post = FindPost(postId)])
    /\ UNCHANGED <<db, history>>

\* Comment.create
addComment_create(p) ==
    /\ pc[p] = "ac_create"
    /\ comments' = comments @@ (nextCommentId :>
                      [post |-> req[p].postId, author |-> req[p].id])
    /\ nextCommentId' = nextCommentId + 1
    /\ Goto(p, "ac_populate", [local[p] EXCEPT !.comment = <<nextCommentId>>])
    /\ UNCHANGED <<posts, users, nextPostId, uploads, history>>

\* comment.populate, then post.comments.push on the local document:
\* a TypeError when post is null, caught as a 500.
addComment_populate(p) ==
    /\ pc[p] = "ac_populate"
    /\ IF local[p].post = <<>>
       THEN Respond(p, req[p], Fail(500))
       ELSE Goto(p, "ac_save",
                 [local[p] EXCEPT !.post = <<[local[p].post[1] EXCEPT
                                    !.comments = Append(@, local[p].comment[1])]>>])
    /\ UNCHANGED <<db, history>>

\* post.save(): the pushed id is sent as an atomic $push
addComment_save(p) ==
    /\ pc[p] = "ac_save"
    /\ LET postId == req[p].postId IN
       /\ posts' = IF postId \in DOMAIN posts
                   THEN [posts EXCEPT ![postId].comments =
                                         Append(@, local[p].comment[1])]
                   ELSE posts
       /\ \E status \in SaveStatus(postId \in DOMAIN posts, 201) :
             Respond(p, req[p], IF status = 500 THEN Fail(500)
                        ELSE Json(201, "true", "", local[p].comment))
    /\ UNCHANGED <<comments, users, nextPostId, nextCommentId, uploads, history>>

----------------------------------------------------------------------------
(* deletePost                                                              *)

\* A fault: any requester passes the ownership check.
IsAuthorAlways(post, authorId) == TRUE

\* post.author.toString() === authorId
IsAuthor(post, authorId) == post.author = authorId

\* Comment.deleteMany({ post: postId }): the collection that remains
deleteMany(postId) ==
    [c \in DOMAIN comments \ CommentsOf(postId) |-> comments[c]]

\* Post.findById, the 404 guard and the ownership check
deletePost(p, id, postId) ==
    /\ pc[p] = "idle"
    /\ LET post == FindPost(postId) IN
       IF post = <<>>
       THEN Respond(p, Req("deletePost", id, postId, ""), Fail(404))
       ELSE IF ~IsAuthor(post[1], id)
       THEN Respond(p, Req("deletePost", id, postId, ""), Json(403, "absent", "", <<>>))
       ELSE Begin(p, Req("deletePost", id, postId, ""), "dp_delete",
                  [NoLocal EXCEPT !.post = post])
    /\ UNCHANGED <<db, history>>

\* Post.findByIdAndDelete
deletePost_delete(p) ==
    /\ pc[p] = "dp_delete"
    /\ posts' = [i \in DOMAIN posts \ {req[p].postId} |-> posts[i]]
    /\ Goto(p, "dp_findUser", local[p])
    /\ UNCHANGED <<comments, users, nextPostId, nextCommentId, uploads, history>>

\* User.findById, then user.posts = user.posts.filter(...) on the local
\* document: a TypeError when user is null, caught as a 500.  The path is
\* modified only when the filtered list differs from the one read.
deletePost_findUser(p) ==
    /\ pc[p] = "dp_findUser"
    /\ LET user == FindUser(req[p].id) IN
       IF user = <<>>
       THEN Respond(p, req[p], Fail(500))
       ELSE LET filtered == Pull(user[1].posts, req[p].postId) IN
            Goto(p, "dp_saveUser",
                 [local[p] EXCEPT
                    !.user = <<[user[1] EXCEPT !.posts = filtered]>>,
                    !.dirty = IF filtered # user[1].posts THEN {"posts"} ELSE {}])
    /\ UNCHANGED <<db, history>>

\* user.save(): the reassigned list is sent whole ($set).  When the stored
\* list was changed since it was read, a schema with a version key rejects
\* the write (VersionError, caught as a 500) and one without overwrites.
deletePost_saveUser(p) ==
    /\ pc[p] = "dp_saveUser"
    /\ LET id == req[p].id
           doc == local[p].user[1]
           written == [save(doc, users[id], local[p].dirty) EXCEPT !.ver =
                         IF local[p].dirty = {} THEN @ ELSE @ + 1]
       IN \E versioned \in IF local[p].dirty # {} /\ users[id].ver # doc.ver
                           THEN BOOLEAN ELSE {FALSE} :
            IF versioned
            THEN /\ Respond(p, req[p], Fail(500))
                 /\ UNCHANGED users
            ELSE /\ users' = [users EXCEPT ![id] = written]
                 /\ Goto(p, "dp_deleteComments", local[p])
    /\ UNCHANGED <<posts, comments, nextPostId, nextCommentId, uploads, history>>

\* Comment.deleteMany, then the 200 response
deletePost_deleteComments(p) ==
    /\ pc[p] = "dp_deleteComments"
    /\ comments' = deleteMany(req[p].postId)
    /\ Respond(p, req[p], Ok(200))
    /\ UNCHANGED <<posts, users, nextPostId, nextCommentId, uploads, history>>

----------------------------------------------------------------------------
(* bookmarkPost                                                            *)

\* Post.findById and the 404 guard
bookmarkPost(p, id, postId) ==
    /\ pc[p] = "idle"
    /\ LET post == FindPost(postId) IN
       IF post = <<>>
       THEN Respond(p, Req("bookmarkPost", id, postId, ""), Fail(404))
       ELSE Begin(p, Req("bookmarkPost", id, postId, ""), "bm_findUser",
                  [NoLocal EXCEPT !.post = post])
    /\ UNCHANGED <<db, history>>

\* User.findById; user.bookmarks of a null user is a TypeError, caught as a 500
bookmarkPost_findUser(p) ==
    /\ pc[p] = "bm_findUser"
    /\ LET user == FindUser(req[p].id) IN
       IF user = <<>>
       THEN Respond(p, req[p], Fail(500))
       ELSE Goto(p, "bm_update", [local[p] EXCEPT !.user = user])
    /\ UNCHANGED <<db, history>>

\* user.updateOne: $pull when the local document holds the bookmark,
\* $addToSet otherwise
bookmarkPost_update(p) ==
    /\ pc[p] = "bm_update"
    /\ LET id == req[p].id
           postId == local[p].post[1].id
       IN users' = [users EXCEPT ![id].bookmarks =
                      IF includes(local[p].user[1].bookmarks, postId)
                      THEN Pull(@, postId)
                      ELSE AddToSet(@, postId)]
    /\ Goto(p, "bm_save", local[p])
    /\ UNCHANGED <<posts, comments, nextPostId, nextCommentId, uploads, history>>

\* user.save() of the unmodified local document, then the response
bookmarkPost_save(p) ==
    /\ pc[p] = "bm_save"
    /\ LET id == req[p].id IN
       users' = [users EXCEPT ![id] = save(local[p].user[1], @, local[p].dirty)]
    /\ LET type == IF includes(local[p].user[1].bookmarks, local[p].post[1].id)
                   THEN "unsaved" ELSE "saved"
       IN /\ Respond(p, req[p], Json(200, "true", type, <<>>))
          /\ lastMark' = [lastMark EXCEPT ![req[p].id][req[p].postId] = type]
    /\ UNCHANGED <<posts, comments, nextPostId, nextCommentId, uploads, lastLike>>

----------------------------------------------------------------------------
(* Specifications.                                                         *)

\* Post ids a request can carry: every id handed out so far, and one that
\* names no post.
PostIdInputs == (1..(nextPostId - 1)) \cup {NoSuchPost}

\* Users with no request of their own in flight.
Sequential == {id \in Users : \A q \in Procs : pc[q] = "idle" \/ req[q].id # id}

\* The awaits of each handler.
addNewPostSteps(p) ==
    \/ addNewPost_upload(p)
    \/ addNewPost_create(p)
    \/ addNewPost_findUser(p)
    \/ addNewPost_saveUser(p)
    \/ addNewPost_populate(p)

likeSteps(p) ==
    \/ likePost_update(p)
    \/ likePost_save(p)
    \/ dislikePost_update(p)
    \/ dislikePost_save(p)

addCommentSteps(p) ==
    \/ addComment_create(p)
    \/ addComment_populate(p)
    \/ addComment_save(p)

deletePostSteps(p) ==
    \/ deletePost_delete(p)
    \/ deletePost_findUser(p)
    \/ deletePost_saveUser(p)
    \/ deletePost_deleteComments(p)

bookmarkSteps(p) ==
    \/ bookmarkPost_findUser(p)
    \/ bookmarkPost_update(p)
    \/ bookmarkPost_save(p)

\* Every handler; requests arrive one after the other (a single slot).
\* likePost and dislikePost never look the requester up, so they are sent
\* by the users with a document only.
Next ==
    \/ addNewPostSteps(1)
    \/ likeSteps(1)
    \/ addCommentSteps(1)
    \/ deletePostSteps(1)
    \/ bookmarkSteps(1)
    \/ \E id \in Ids, image \in Images : addNewPost(1, id, image)
    \/ getAllPost(1)
    \/ \E id \in Ids : getUserPost(1, id)
    \/ \E postId \in PostIdInputs : getCommentsOfPost(1, postId)
    \/ \E id \in Users, postId \in PostIdInputs : likePost(1, id, postId)
    \/ \E id \in Users, postId \in PostIdInputs : dislikePost(1, id, postId)
    \/ \E id \in Ids, postId \in PostIdInputs, text \in BOOLEAN :
          addComment(1, id, postId, text)
    \/ \E id \in Ids, postId \in PostIdInputs : deletePost(1, id, postId)
    \/ \E id \in Ids, postId \in PostIdInputs : bookmarkPost(1, id, postId)

Spec == Init /\ [][Next]_vars

\* Posts and comments: addNewPost, addComment and deletePost by any
\* requester, overlapping freely.
NextPosts ==
    \E p \in Procs :
        \/ addNewPostSteps(p)
        \/ addCommentSteps(p)
        \/ deletePostSteps(p)
        \/ \E id \in Ids, image \in Images : addNewPost(p, id, image)
        \/ \E id \in Ids, postId \in PostIdInputs, text \in BOOLEAN :
              addComment(p, id, postId, text)
        \/ \E id \in Ids, postId \in PostIdInputs : deletePost(p, id, postId)

SpecPosts == Init /\ [][NextPosts]_vars

\* The same handlers; requests of different users overlap, each user's own
\* are sequential.
NextUsers ==
    \E p \in Procs :
        \/ addNewPostSteps(p)
        \/ addCommentSteps(p)
        \/ deletePostSteps(p)
        \/ \E id \in Sequential, image \in Images : addNewPost(p, id, image)
        \/ \E id \in Sequential, postId \in PostIdInputs, text \in BOOLEAN :
              addComment(p, id, postId, text)
        \/ \E id \in Sequential, postId \in PostIdInputs : deletePost(p, id, postId)

SpecUsers == Init /\ [][NextUsers]_vars

\* Likes: posts are added and deleted while users like and dislike them;
\* requests of different users overlap, each user's own are sequential.
NextLikes ==
    \E p \in Procs :
        \/ addNewPostSteps(p)
        \/ likeSteps(p)
        \/ deletePostSteps(p)
        \/ \E id \in Sequential : addNewPost(p, id, "valid")
        \/ \E id \in Sequential, postId \in PostIdInputs : likePost(p, id, postId)
        \/ \E id \in Sequential, postId \in PostIdInputs : dislikePost(p, id, postId)
        \/ \E id \in Sequential, postId \in PostIdInputs : deletePost(p, id, postId)

SpecLikes == Init /\ [][NextLikes]_vars

\* Bookmarks: posts are added and deleted while users toggle bookmarks;
\* requests of different users overlap, each user's own are sequential.
NextBookmarks ==
    \E p \in Procs :
        \/ addNewPostSteps(p)
        \/ bookmarkSteps(p)
        \/ deletePostSteps(p)
        \/ \E id \in Sequential : addNewPost(p, id, "valid")
        \/ \E id \in Sequential, postId \in PostIdInputs : bookmarkPost(p, id, postId)
        \/ \E id \in Sequential, postId \in PostIdInputs : deletePost(p, id, postId)

SpecBookmarks == Init /\ [][NextBookmarks]_vars

----------------------------------------------------------------------------
(* Properties.                                                             *)

Quiescent == \A p \in Procs : pc[p] = "idle"

\* The step just taken sent the response of a request of handler op.
Sent(op) == resp.req.op = op

\* C1: when deletePost of an existing post by its author returns 200, the
\* post is no longer stored, no stored comment refers to it (listing its
\* comments gives the empty collection), and its id is neither in the
\* author's owned-posts list nor among the posts listed for the author.
C1_DeleteCascades ==
    (Sent("deletePost") /\ resp.status = 200) =>
        LET P == resp.req.postId
            U == resp.req.id
        IN /\ P \notin DOMAIN posts
           /\ \A c \in DOMAIN comments : comments[c].post # P
           /\ Ascending(CommentsOf(P)) = <<>>
           /\ U \in DOMAIN users /\ ~InSeq(P, users[U].posts)
           /\ ~InSeq(P, Descending(PostsOf(U)))

\* C2: deletePost of an existing post by a requester other than its author
\* is answered 403 and changes nothing: the request never gets past the
\* ownership check, and the step that answers it leaves the posts, the
\* comments and the users as they were.
C2_NonAuthorDeleteRejected ==
    [][\A id \in Ids : \A P \in DOMAIN posts :
          posts[P].author # id =>
             /\ \A p \in Procs : req'[p] # Req("deletePost", id, P, "")
             /\ resp'.req = Req("deletePost", id, P, "") =>
                   /\ resp'.status = 403
                   /\ posts' = posts /\ comments' = comments /\ users' = users]_vars

\* A non-author was answered 403 for a post that has a comment and is in
\* its author's list.
C2_Witness ==
    /\ Sent("deletePost") /\ resp.status = 403
    /\ resp.req.postId \in DOMAIN posts
    /\ posts[resp.req.postId].author # resp.req.id
    /\ CommentsOf(resp.req.postId) # {}
    /\ InSeq(resp.req.postId, users[posts[resp.req.postId].author].posts)

\* C3: likePost is idempotent per user: every step of a likePost by a user
\* who is already in the likes of the (existing) post leaves the likes as
\* they are, with the user in them exactly once, and the request succeeds.
C3_LikeIdempotent ==
    [][\A p \in Procs :
          LET U == req[p].id
              P == req[p].postId
          IN (req[p].op = "likePost" /\ pc'[p] # pc[p]
                /\ P \in DOMAIN posts /\ InSeq(U, posts[P].likes)) =>
                /\ P \in DOMAIN posts'
                /\ posts'[P].likes = posts[P].likes
                /\ Count(U, posts'[P].likes) = 1
                /\ pc'[p] = "idle" => (resp'.status = 200 /\ resp'.success = "true")]_vars

\* A user whose last completed request on the post was a like has sent
\* another like, whose update has been applied.
C3_Witness ==
    \E p \in Procs :
        /\ pc[p] = "like_save"
        /\ req[p].postId \in DOMAIN posts
        /\ lastLike[req[p].id][req[p].postId] = "like"
        /\ Count(req[p].id, posts[req[p].postId].likes) = 1

\* C4: bookmarkPost is a strict flip: for a user whose toggles of a post do
\* not overlap, the update flips the membership of the post in the user's
\* bookmarks, and the response carries "saved" exactly when the post is in
\* the bookmarks afterwards and "unsaved" when it is not; the first toggle
\* answers "saved", and each later one the opposite of the one before.
C4_BookmarkFlips ==
    [][\A p \in Procs :
          LET U == req[p].id
              P == req[p].postId
          IN (req[p].op = "bookmarkPost" /\ pc'[p] # pc[p] /\ U \in DOMAIN users) =>
                /\ pc[p] = "bm_update" =>
                      InSeq(P, users'[U].bookmarks) = ~InSeq(P, users[U].bookmarks)
                /\ pc[p] = "bm_save" =>
                      /\ resp'.status = 200
                      /\ resp'.type \in {"saved", "unsaved"}
                      /\ (resp'.type = "saved") = InSeq(P, users'[U].bookmarks)
                      /\ Count(P, users'[U].bookmarks) <= 1
                      /\ (resp'.type = "saved") = (lastMark[U][P] # "saved")]_vars

\* A second toggle has answered "unsaved" and the post is out of the set.
C4_Witness ==
    /\ Sent("bookmarkPost") /\ resp.type = "unsaved"
    /\ lastMark[resp.req.id][resp.req.postId] = "unsaved"
    /\ ~InSeq(resp.req.postId, users[resp.req.id].bookmarks)

\* C5: no lost updates between users: once every request has completed, a
\* user is in the likes of an existing post exactly when the user's last
\* completed request on it was a like.
C5_NoLostLikes ==
    Quiescent =>
        \A P \in DOMAIN posts : \A U \in Ids :
            InSeq(U, posts[P].likes) = (lastLike[U][P] = "like")

\* Requests of two users on one post overlap: both updates are applied and
\* neither handler has yet saved its earlier-read document.
C5_Witness ==
    \E p, q \in Procs :
        /\ pc[p] = "like_save" /\ pc[q] = "dislike_save"
        /\ req[p].postId = req[q].postId
        /\ req[p].id # req[q].id
        /\ req[p].postId \in DOMAIN posts
        /\ local[q].post[1].likes # posts[req[p].postId].likes

\* C6: addComment with non-empty text for a post id that names no post
\* fails with 404: the request is not carried on past the lookup, and the
\* response to it is a 404.
C6_AddCommentMissingPost ==
    /\ \A p \in Procs : req[p].op = "addComment" => local[p].post # <<>>
    /\ (Sent("addComment") /\ resp.req.postId = NoSuchPost /\ resp.status # 400)
          => resp.status = 404

\* C7: addNewPost without an image is answered 400 and never reaches
\* storage: no such request is ever carried on past the image check, and
\* the step that answers it issues no upload, creates no post and leaves
\* the users (their owned-posts lists) as they were.
C7_NoImageRejected ==
    [][/\ \A p \in Procs : ~(req'[p].op = "addNewPost" /\ req'[p].arg = "none")
       /\ (resp'.req.op = "addNewPost" /\ resp'.req.arg = "none") =>
             /\ resp'.status = 400
             /\ uploads' = uploads /\ posts' = posts /\ users' = users
             /\ nextPostId' = nextPostId]_vars

\* An addNewPost without an image was answered 400 while the requester
\* owns a post.
C7_Witness ==
    /\ Sent("addNewPost") /\ resp.req.arg = "none" /\ resp.status = 400
    /\ resp.req.id \in DOMAIN users
    /\ users[resp.req.id].posts # <<>>

\* C8: every failure response of every handler carries success = false.
C8_FailureEnvelope ==
    resp.status >= 400 => resp.success = "false"

\* C9: no orphaned comments: when no request is in flight, every stored
\* comment refers to a post that exists.
C9_NoOrphanedComments ==
    Quiescent => \A c \in DOMAIN comments : comments[c].post \in DOMAIN posts

\* C10: ownership backlink: when no request is in flight, each user's
\* owned-posts list holds exactly the ids of the existing posts the user
\* authored, each once.
C10_OwnedPostsConsistent ==
    Quiescent =>
        \A U \in DOMAIN users :
            /\ Range(users[U].posts) = PostsOf(U)
            /\ \A P \in Range(users[U].posts) : Count(P, users[U].posts) = 1

====
